---- MODULE Spec2Model ----
(***************************************************************************)
(* A model of the Last.fm / Spotify Telegram bot of src/main.py.           *)
(*                                                                         *)
(* A Python str is a sequence of one-character strings, so that joining,   *)
(* lower-casing, searching, splitting and stripping are computed and not   *)
(* assumed.  A dict is a sequence of <<key, value>> pairs in insertion     *)
(* order.  None is a sequence no str equals (its only element is not one   *)
(* character), so that it compares with every str.                         *)
(***************************************************************************)
EXTENDS Integers, Sequences, FiniteSets, TLC

None == <<"None">>

\* bool(x) for a str, a list or None
Truthy(x) == x # None /\ x # <<>>

(***************************************************************************)
(* Python str and list operations used by the program.                     *)
(***************************************************************************)

\* str.lower() on one character (ASCII letters; every other unit is kept).
LowerChar(c) ==
    CASE c = "A" -> "a"
      [] c = "B" -> "b"
      [] c = "C" -> "c"
      [] c = "D" -> "d"
      [] c = "E" -> "e"
      [] c = "F" -> "f"
      [] c = "G" -> "g"
      [] c = "H" -> "h"
      [] c = "I" -> "i"
      [] c = "J" -> "j"
      [] c = "K" -> "k"
      [] c = "L" -> "l"
      [] c = "M" -> "m"
      [] c = "N" -> "n"
      [] c = "O" -> "o"
      [] c = "P" -> "p"
      [] c = "Q" -> "q"
      [] c = "R" -> "r"
      [] c = "S" -> "s"
      [] c = "T" -> "t"
      [] c = "U" -> "u"
      [] c = "V" -> "v"
      [] c = "W" -> "w"
      [] c = "X" -> "x"
      [] c = "Y" -> "y"
      [] c = "Z" -> "z"
      [] OTHER -> c

\* s.lower()
Lower(s) == [i \in 1..Len(s) |-> LowerChar(s[i])]

\* sep.join(list)
RECURSIVE Join(_, _)
Join(sep, list) ==
    IF list = <<>> THEN <<>>
    ELSE IF Len(list) = 1 THEN list[1]
    ELSE list[1] \o sep \o Join(sep, Tail(list))

\* s[i:i+len(sub)] == sub, for a 1-based i
MatchAt(s, sub, i) ==
    /\ i + Len(sub) - 1 <= Len(s)
    /\ \A k \in 1..Len(sub) : s[i + k - 1] = sub[k]

\* sub in s
Contains(s, sub) == \E i \in 1..(Len(s) + 1) : MatchAt(s, sub, i)

\* s.find(sub), 1-based; only used where sub in s
Find(s, sub) ==
    CHOOSE i \in 1..(Len(s) + 1) :
        /\ MatchAt(s, sub, i)
        /\ \A j \in 1..(i - 1) : ~MatchAt(s, sub, j)

IsSpace(c) == c \in {" ", "\n", "\t"}

\* s.lstrip(), s.rstrip(), s.strip()
RECURSIVE LStrip(_)
LStrip(s) == IF s # <<>> /\ IsSpace(s[1]) THEN LStrip(Tail(s)) ELSE s

RECURSIVE RStrip(_)
RStrip(s) ==
    IF s # <<>> /\ IsSpace(s[Len(s)]) THEN RStrip(SubSeq(s, 1, Len(s) - 1)) ELSE s

Strip(s) == RStrip(LStrip(s))

\* s.split(sep, 1) where sep in s: the text before and after the first sep
Split1(s, sep) ==
    LET i == Find(s, sep)
    IN  <<SubSeq(s, 1, i - 1), SubSeq(s, i + Len(sep), Len(s))>>

\* list.pop() leaves list[:-1]
Pop(list) == SubSeq(list, 1, Len(list) - 1)

\* x in list
InList(x, list) == \E i \in 1..Len(list) : list[i] = x

Range(list) == {list[i] : i \in 1..Len(list)}

(***************************************************************************)
(* Module constants.                                                       *)
(***************************************************************************)

VALID_PERIODS ==
    << <<"7","d","a","y">>,
       <<"1","m","o","n","t","h">>,
       <<"3","m","o","n","t","h">>,
       <<"6","m","o","n","t","h">>,
       <<"1","2","m","o","n","t","h">>,
       <<"o","v","e","r","a","l","l">> >>

DEFAULT_PERIOD == <<"7","d","a","y">>

SPACE == <<" ">>

\* ' - '
DELIM == <<" ", "-", " ">>

(***************************************************************************)
(* The argument parser.                                                    *)
(***************************************************************************)

\* The test of line 110 with the .lower() forgotten.
IsPeriodToken_CaseSensitive(tok) == InList(tok, VALID_PERIODS)

\* args[-1].lower() in VALID_PERIODS
IsPeriodToken(tok) == InList(Lower(tok), VALID_PERIODS)

\* _get_user_and_period(context): <<username, period>> from context.args and
\* the saved context.user_data.get('lastfm_user').
_get_user_and_period(a, saved) ==
    LET consumed == a # <<>> /\ IsPeriodToken(a[Len(a)])
        period   == IF consumed THEN Lower(a[Len(a)]) ELSE DEFAULT_PERIOD
        rest     == IF consumed THEN Pop(a) ELSE a
        username == IF rest # <<>> THEN Join(SPACE, rest) ELSE saved
    IN  <<username, period>>

\* query.split(' - ', 1) taken at the last delimiter instead (rsplit).
RECURSIVE FindLast(_, _, _)
FindLast(s, sub, i) ==
    IF i <= 1 \/ MatchAt(s, sub, i) THEN i ELSE FindLast(s, sub, i - 1)

SplitQuery_AtLast(query) ==
    LET i == FindLast(query, DELIM, Len(query))
    IN  <<SubSeq(query, 1, i - 1), SubSeq(query, i + Len(DELIM), Len(query))>>

\* artist, item = query.split(' - ', 1)
SplitQuery(query) == Split1(query, DELIM)

\* _parse_artist_item_query(context): <<artist, item>> or <<None, None>>.
_parse_artist_item_query(a) ==
    LET query == Join(SPACE, a)
    IN  IF ~Contains(query, DELIM) THEN <<None, None>>
        ELSE LET halves == SplitQuery(query)
             IN  <<Strip(halves[1]), Strip(halves[2])>>

(***************************************************************************)
(* State.                                                                  *)
(***************************************************************************)

VARIABLES
    user_data,  \* per platform user: context.user_data.get('lastfm_user')
    chat_data,  \* per chat: context.chat_data, with or without its 'lastfm_users' dict
    last_reg,   \* history: per chat and user, the registrations made and the latest's entry
    update,     \* the update being handled: command, args, effective user, chat
    pc,         \* position of the handler invocation
    loc,        \* local variables of the handler invocation
    exc,        \* the exception in flight, NoExc when none
    sends,      \* platform sends issued for this update, with their outcomes
    calls,      \* scrobble-service and catalog-service calls issued for this update
    logged,     \* logger calls made for this update
    composer,   \* _send_with_photo_or_text: "none", "running", "returned", "raised"
    escaped,    \* an exception left the handler callback for the dispatch loop
    ret,        \* result of a parser call made on its own
    nupd        \* number of updates dispatched

vars == <<user_data, chat_data, last_reg, update, pc, loc, exc, sends, calls,
          logged, composer, escaped, ret, nupd>>

(***************************************************************************)
(* Bounds and inputs.                                                      *)
(***************************************************************************)

MaxUpdates == 3
MaxUPArgs == 3
MaxAIArgs == 5
ShortCaption == 10
LongCaption == 5000

Users == {1, 2}
Chats == {1, 2}

TokUser   == <<"r","j">>
TokUser2  == <<"D","j">>
TokPeriod == <<"1","M","o","n","t","h">>
TokArtist == <<"A","b">>
TokDash   == <<"-">>
TokItem   == <<"m">>

WrappedCommands ==
    {"np", "recent", "topartists", "topalbums", "toptracks",
     "artist", "album", "track", "nl"}

TopCommands == {"recent", "topartists", "topalbums", "toptracks"}

Commands == WrappedCommands \cup {"start", "help", "set", "joinfm", "unknown"}

\* context.args of an update, by command
ArgsOf(c) ==
    IF c \in TopCommands \cup {"np"}
    THEN {<<>>, <<TokUser>>, <<TokPeriod>>, <<TokUser, TokPeriod>>}
    ELSE IF c = "set" THEN {<<>>, <<TokUser2>>}
    ELSE IF c = "artist" THEN {<<>>, <<TokArtist>>}
    ELSE IF c \in {"album", "track"}
    THEN {<<TokArtist>>, <<TokArtist, TokDash, TokItem>>}
    ELSE {<<>>}

\* Only joinfm and nl read the chat, only joinfm reads the handle.
ChatsOf(c) == IF c \in {"joinfm", "nl"} THEN Chats ELSE {1}
HandlesOf(c) == IF c = "joinfm" THEN {None, <<"h">>} ELSE {None}
FirstName(u) == IF u = 1 THEN <<"A","n","a">> ELSE <<"B","i","a">>

\* user.get_top_artists(limit=50, period='overall'): <<name, weight>> items
TopArtistLists ==
    { <<>>,
      << <<<<"x">>, 7>> >>,
      << <<<<"x">>, 7>>, <<<<"A","B">>, 5>>, <<<<"a","b">>, 3>> >> }

URL == <<"u","r","l">>

NoExc == [type |-> "none", about |-> "none"]

\* What a call on a user, artist, album or track object (`about`) raises: a
\* pylast.WSError with "<about> not found" in its lower-cased text, a
\* pylast.WSError with none of the four texts ("other"), or another exception.
ServiceErrors(about) ==
    { [type |-> "WSError", about |-> about],
      [type |-> "WSError", about |-> "other"],
      [type |-> "Exception", about |-> "other"] }

\* The platform accepts a send or fails it with a TelegramError.  Only the
\* except clause of the composer's text send reads the error text, so only
\* there is a rejection with "message is too long" in its text ("too_long")
\* told apart from the other errors.
SendOutcomes(site) ==
    IF site = "text" THEN {"ok", "too_long", "error"} ELSE {"ok", "error"}

TelegramErrorOf(o) == [type |-> "TelegramError", about |-> o]

(***************************************************************************)
(* Message texts: caption[:pre] of the caption being sent, followed by     *)
(* the units suf.                                                          *)
(***************************************************************************)

TEXT_LIMIT == 4096

\* "\n\n... [MENSAGEM TRUNCADA]"
MARKER ==
    <<"\n", "\n", ".", ".", ".", " ", "[", "M", "E", "N", "S", "A", "G", "E",
      "M", " ", "T", "R", "U", "N", "C", "A", "D", "A", "]">>

Caption(n) == [pre |-> n, suf |-> <<>>]

\* len(t)
Length(t) == t.pre + Len(t.suf)

Min(a, b) == IF a <= b THEN a ELSE b

\* t[:n] for n >= 0: the first n units, all of t when it has fewer
Slice(t, n) ==
    IF n <= t.pre THEN [pre |-> n, suf |-> <<>>]
    ELSE [pre |-> t.pre, suf |-> SubSeq(t.suf, 1, Min(n - t.pre, Len(t.suf)))]

\* t + s
Concat(t, s) == [t EXCEPT !.suf = @ \o s]

CaptionLens == {ShortCaption, LongCaption}

\* context.chat_data of a chat before 'lastfm_users' is created
NoChatData == [present |-> FALSE, users |-> <<>>]

LocInit ==
    [ lastfm_user    |-> None,
      album          |-> FALSE,
      spotify        |-> "none",
      spotify_result |-> None,
      image_url      |-> None,
      fallback       |-> FALSE,
      caption        |-> Caption(0),
      reply          |-> "none",
      scanned        |-> FALSE,
      top_items      |-> <<>>,
      user_playcount |-> <<>>,
      nl_idx         |-> 0,
      nl_queried     |-> <<>>,
      nl_outcomes    |-> <<>>,
      nl_lines       |-> <<>>,
      listening_count |-> 0 ]

NoRet == [fn |-> "none", val |-> <<>>]

NoUpdate ==
    [cmd |-> "none", args |-> <<>>, uid |-> 1, chat |-> 1,
     first_name |-> FirstName(1), username |-> None]

\* PicklePersistence reloads the user_data earlier runs saved: user 1 has saved
\* a name, user 2 may have.
Init ==
    /\ user_data \in {[u \in Users |-> IF u = 1 THEN Join(SPACE, <<TokUser>>) ELSE s] :
                         s \in {None, Join(SPACE, <<TokUser2>>)}}
    /\ chat_data = [c \in Chats |-> NoChatData]
    /\ last_reg = [c \in Chats |-> [u \in Users |-> [n |-> 0, entry |-> <<>>]]]
    /\ update = NoUpdate
    /\ pc = "idle"
    /\ loc = LocInit
    /\ exc = NoExc
    /\ sends = <<>>
    /\ calls = <<>>
    /\ logged = <<>>
    /\ composer = "none"
    /\ escaped = FALSE
    /\ ret = NoRet
    /\ nupd = 0

(***************************************************************************)
(* Shared steps: raising, sending, calling a service.                      *)
(***************************************************************************)

Sent(api, kind, by, body, o) ==
    [api |-> api, kind |-> kind, by |-> by, body |-> body, outcome |-> o]

\* An exception leaves the handler function: into the decorator's except
\* clauses when the handler is decorated, else out of the callback.
Raise(e) ==
    /\ exc' = e
    /\ IF update.cmd \in WrappedCommands
       THEN pc' = "wrapper" /\ escaped' = escaped
       ELSE pc' = "done" /\ escaped' = TRUE

\* await update.message.<api>(...) followed by the handler's return
ReplyAndReturn(api, kind, body) ==
    \E o \in SendOutcomes("handler") :
        /\ sends' = Append(sends, Sent(api, kind, "handler", body, o))
        /\ IF o = "ok"
           THEN pc' = "done" /\ exc' = exc /\ escaped' = escaped
           ELSE Raise(TelegramErrorOf(o))

\* A statement that is one service call: it returns or raises.
ServiceCall(at, about, name, next) ==
    /\ pc = at
    /\ calls' = Append(calls, name)
    /\ \/ pc' = next /\ UNCHANGED <<exc, escaped>>
       \/ \E e \in ServiceErrors(about) : Raise(e)
    /\ UNCHANGED <<user_data, chat_data, last_reg, update, loc, sends, logged,
                   composer, ret, nupd>>

\* `if not lastfm_user:` / `if not artist_name:` with the test never true
NotResolved_Never(x) == FALSE

\* `if not lastfm_user:` / `if not artist_name:`
NotResolved(x) == ~Truthy(x)

\* `if not image_url:` with the fallback never taken
NeedsFallback_Never(image_url) == FALSE

\* `if not image_url:`
NeedsFallback(image_url) == ~Truthy(image_url)

(***************************************************************************)
(* The dispatcher: Application.run_polling() without concurrent_updates    *)
(* awaits each update's handler before it takes the next update.           *)
(***************************************************************************)

Entry(c) == IF c \in TopCommands THEN "top" ELSE c

Dispatch ==
    /\ pc = "idle"
    /\ nupd < MaxUpdates
    /\ \E c \in Commands, u \in Users :
         \E a \in ArgsOf(c), ch \in ChatsOf(c), h \in HandlesOf(c) :
            /\ update' = [cmd |-> c, args |-> a, uid |-> u, chat |-> ch,
                          first_name |-> FirstName(u), username |-> h]
            /\ pc' = Entry(c)
    /\ nupd' = nupd + 1
    /\ UNCHANGED <<user_data, chat_data, last_reg, loc, exc, sends, calls,
                   logged, composer, escaped, ret>>

\* The callback is over (returned, or its exception was taken by the dispatch
\* loop, which logs it): the invocation's locals are gone and the loop takes
\* the next update.
Return ==
    /\ pc = "done"
    /\ pc' = "idle"
    /\ update' = NoUpdate
    /\ loc' = LocInit
    /\ exc' = NoExc
    /\ sends' = <<>>
    /\ calls' = <<>>
    /\ logged' = <<>>
    /\ composer' = "none"
    /\ escaped' = FALSE
    /\ UNCHANGED <<user_data, chat_data, last_reg, ret, nupd>>

(***************************************************************************)
(* handle_lastfm_errors: the except clauses of the decorator.              *)
(***************************************************************************)

WrapperReply(e) ==
    IF e.type = "WSError"
    THEN CASE e.about = "user" -> "user_not_found"
           [] e.about = "artist" -> "artist_not_found"
           [] e.about \in {"album", "track"} -> "item_not_found"
           [] OTHER -> "lastfm_error"
    ELSE "unexpected"

handle_lastfm_errors ==
    /\ pc = "wrapper"
    /\ LET kind == WrapperReply(exc)
       IN  /\ logged' = IF kind \in {"lastfm_error", "unexpected"}
                        THEN Append(logged, "error:" \o kind)
                        ELSE logged
           /\ \E o \in SendOutcomes("wrapper") :
                /\ sends' = Append(sends, Sent("reply_text", kind, "wrapper", <<>>, o))
                /\ IF o = "ok"
                   THEN exc' = NoExc /\ escaped' = escaped
                   ELSE exc' = TelegramErrorOf(o) /\ escaped' = TRUE
    /\ pc' = "done"
    /\ UNCHANGED <<user_data, chat_data, last_reg, update, loc, calls, composer,
                   ret, nupd>>

(***************************************************************************)
(* Handlers without service calls.                                         *)
(***************************************************************************)

start ==
    /\ pc = "start"
    /\ ReplyAndReturn("reply_html", "greeting", <<>>)
    /\ UNCHANGED <<user_data, chat_data, last_reg, update, loc, calls, logged,
                   composer, ret, nupd>>

help_command ==
    /\ pc = "help"
    /\ ReplyAndReturn("reply_text", "help", <<>>)
    /\ UNCHANGED <<user_data, chat_data, last_reg, update, loc, calls, logged,
                   composer, ret, nupd>>

unknown_command ==
    /\ pc = "unknown"
    /\ ReplyAndReturn("reply_text", "unknown", <<>>)
    /\ UNCHANGED <<user_data, chat_data, last_reg, update, loc, calls, logged,
                   composer, ret, nupd>>

\* The assignment storing the name for every user instead of the caller.
SaveUsername_Everyone(ud, uid, username) == [u \in DOMAIN ud |-> username]

\* context.user_data['lastfm_user'] = username, in the caller's user_data
SaveUsername(ud, uid, username) == [ud EXCEPT ![uid] = username]

set_username ==
    /\ pc = "set"
    /\ IF update.args = <<>>
       THEN /\ ReplyAndReturn("reply_text", "usage", <<>>)
            /\ user_data' = user_data
       ELSE /\ user_data' = SaveUsername(user_data, update.uid,
                                         Join(SPACE, update.args))
            /\ ReplyAndReturn("reply_text", "saved", <<>>)
    /\ UNCHANGED <<chat_data, last_reg, update, loc, calls, logged, composer,
                   ret, nupd>>

\* A handler's reply_text of an empty-state message or of a list, then return.
HandlerReply ==
    /\ pc = "reply"
    /\ ReplyAndReturn("reply_text", loc.reply, <<>>)
    /\ UNCHANGED <<user_data, chat_data, last_reg, update, loc, calls, logged,
                   composer, ret, nupd>>

(***************************************************************************)
(* The image resolver and the Last.fm artwork fallback.                    *)
(***************************************************************************)

\* What the handler does after `image_url = await _get_spotify_image_url(...)`.
AfterSpotify(c, album, image_url) ==
    CASE c = "np" ->
           IF album /\ NeedsFallback(image_url) THEN "fallback" ELSE "compose"
      [] c = "artist" ->
           IF NeedsFallback(image_url) THEN "fallback" ELSE "artist:get_top_tags"
      [] c = "album" ->
           IF NeedsFallback(image_url) THEN "fallback" ELSE "album:get_playcount2"
      [] OTHER -> "track:get_playcount2"

\* What the handler does after `image_url = _get_lastfm_image_fallback(...)`.
AfterFallback(c) ==
    CASE c = "artist" -> "artist:get_top_tags"
      [] c = "album" -> "album:get_playcount2"
      [] OTHER -> "compose"

\* The value blocking_spotify_search hands back: the first image of the first
\* match, or None for no match and for any exception of the search.
SpotifyResult(outcome) == IF outcome = "found" THEN URL ELSE None

\* sp.search finds an image, finds nothing, or raises.
_get_spotify_image_url ==
    /\ pc = "spotify"
    /\ calls' = Append(calls, "sp.search")
    /\ \E outcome \in {"found", "empty", "raised"} :
         LET image_url == SpotifyResult(outcome)
         IN  /\ loc' = [loc EXCEPT !.spotify = outcome,
                                   !.spotify_result = image_url,
                                   !.image_url = image_url]
             /\ logged' =
                  (IF outcome = "raised" THEN Append(logged, "error:spotify")
                                         ELSE logged)
                  \o (IF Truthy(image_url) THEN <<"info:spotify_found">>
                                           ELSE <<"warning:spotify_not_found">>)
             /\ pc' = AfterSpotify(update.cmd, loc.album, image_url)
    /\ UNCHANGED <<user_data, chat_data, last_reg, update, exc, sends, composer,
                   escaped, ret, nupd>>

FallbackTiers == <<"image:mega", "image:extralarge", "image:large">>

\* The getter is tried at three sizes; the first call that does not raise gives
\* the image; None when all three raise.
_get_lastfm_image_fallback ==
    /\ pc = "fallback"
    /\ \/ \E k \in 1..3 :
            /\ calls' = calls \o SubSeq(FallbackTiers, 1, k)
            /\ loc' = [loc EXCEPT !.fallback = TRUE, !.image_url = URL]
            /\ logged' = Append(logged, "info:fallback")
       \/ /\ calls' = calls \o FallbackTiers
          /\ loc' = [loc EXCEPT !.fallback = TRUE, !.image_url = None]
          /\ logged' = logged \o <<"info:fallback", "error:fallback">>
    /\ pc' = AfterFallback(update.cmd)
    /\ UNCHANGED <<user_data, chat_data, last_reg, update, exc, sends, composer,
                   escaped, ret, nupd>>

(***************************************************************************)
(* The response composer, _send_with_photo_or_text.                        *)
(***************************************************************************)

\* The truncation cut at the limit itself, with no room left for the marker.
TruncatedCaption_NoRoom(caption) == Concat(Slice(caption, TEXT_LIMIT), MARKER)

\* caption[:(TEXT_LIMIT - 25)] + "\n\n... [MENSAGEM TRUNCADA]"
TruncatedCaption(caption) == Concat(Slice(caption, TEXT_LIMIT - 25), MARKER)

\* The handler builds message_text and calls the composer, which takes the
\* photo branch when image_url is set.
Compose ==
    /\ pc = "compose"
    /\ \E n \in CaptionLens : loc' = [loc EXCEPT !.caption = Caption(n)]
    /\ composer' = "running"
    /\ pc' = IF Truthy(loc.image_url) THEN "send:photo" ELSE "send:text"
    /\ UNCHANGED <<user_data, chat_data, last_reg, update, exc, sends, calls,
                   logged, escaped, ret, nupd>>

\* The photo branch without the `return` after reply_photo.
AfterPhoto_NoReturn(o) == "send:text"

\* Where the photo branch goes: `return` after a reply_photo that did not
\* raise, on to the text send from the except clause.
AfterPhoto(o) == IF o = "ok" THEN "done" ELSE "send:text"

\* reply_photo in its try: any TelegramError falls through to the text send.
SendPhoto ==
    /\ pc = "send:photo"
    /\ \E o \in SendOutcomes("photo") :
         /\ sends' = Append(sends, Sent("reply_photo", "caption", "composer",
                                        loc.caption, o))
         /\ pc' = AfterPhoto(o)
         /\ composer' = IF AfterPhoto(o) = "done" THEN "returned" ELSE composer
         /\ logged' = IF o = "ok" THEN logged
                                  ELSE Append(logged, "warning:photo")
    /\ UNCHANGED <<user_data, chat_data, last_reg, update, loc, exc, calls,
                   escaped, ret, nupd>>

\* reply_text of the caption in its try.
SendText ==
    /\ pc = "send:text"
    /\ \E o \in SendOutcomes("text") :
         /\ sends' = Append(sends, Sent("reply_text", "caption", "composer",
                                        loc.caption, o))
         /\ CASE o = "ok" ->
                   pc' = "done" /\ composer' = "returned" /\ logged' = logged
              [] o = "too_long" ->
                   /\ pc' = "send:truncated"
                   /\ composer' = composer
                   /\ logged' = Append(logged, "warning:too_long")
              [] OTHER ->
                   /\ pc' = "send:generic"
                   /\ composer' = composer
                   /\ logged' = Append(logged, "error:text_fallback")
    /\ UNCHANGED <<user_data, chat_data, last_reg, update, loc, exc, calls,
                   escaped, ret, nupd>>

\* A send made inside the except clause: its TelegramError leaves the composer.
SendInExcept(kind, body) ==
    \E o \in SendOutcomes("except") :
        /\ sends' = Append(sends, Sent("reply_text", kind, "composer", body, o))
        /\ IF o = "ok"
           THEN /\ composer' = "returned"
                /\ pc' = "done" /\ exc' = exc /\ escaped' = escaped
           ELSE /\ composer' = "raised"
                /\ Raise(TelegramErrorOf(o))

SendTruncated ==
    /\ pc = "send:truncated"
    /\ SendInExcept("truncated", TruncatedCaption(loc.caption))
    /\ UNCHANGED <<user_data, chat_data, last_reg, update, loc, calls, logged,
                   ret, nupd>>

SendGeneric ==
    /\ pc = "send:generic"
    /\ SendInExcept("format_error", <<>>)
    /\ UNCHANGED <<user_data, chat_data, last_reg, update, loc, calls, logged,
                   ret, nupd>>

(***************************************************************************)
(* now_playing.                                                            *)
(***************************************************************************)

now_playing ==
    /\ pc = "np"
    /\ LET lastfm_user == _get_user_and_period(update.args, user_data[update.uid])[1]
       IN  IF NotResolved(lastfm_user)
           THEN /\ ReplyAndReturn("reply_text", "usage", <<>>)
                /\ loc' = loc
           ELSE /\ loc' = [loc EXCEPT !.lastfm_user = lastfm_user]
                /\ pc' = "np:get_now_playing"
                /\ UNCHANGED <<exc, sends, escaped>>
    /\ UNCHANGED <<user_data, chat_data, last_reg, update, calls, logged,
                   composer, ret, nupd>>

\* network.get_user(...); user.get_now_playing(): a track, None, or an error.
np_get_now_playing ==
    /\ pc = "np:get_now_playing"
    /\ calls' = calls \o <<"network.get_user", "user.get_now_playing">>
    /\ \/ /\ pc' = "np:get_track_scrobbles"
          /\ UNCHANGED <<loc, exc, escaped>>
       \/ /\ pc' = "reply"
          /\ loc' = [loc EXCEPT !.reply = "not_playing"]
          /\ UNCHANGED <<exc, escaped>>
       \/ /\ \E e \in ServiceErrors("user") : Raise(e)
          /\ loc' = loc
    /\ UNCHANGED <<user_data, chat_data, last_reg, update, sends, logged,
                   composer, ret, nupd>>

np_get_track_scrobbles ==
    ServiceCall("np:get_track_scrobbles", "user", "user.get_track_scrobbles",
                "np:get_album")

\* now_playing.get_album(): an album, None, or an error.
np_get_album ==
    /\ pc = "np:get_album"
    /\ calls' = Append(calls, "track.get_album")
    /\ \/ /\ \E album \in BOOLEAN : loc' = [loc EXCEPT !.album = album]
          /\ pc' = "spotify"
          /\ UNCHANGED <<exc, escaped>>
       \/ /\ \E e \in ServiceErrors("track") : Raise(e)
          /\ loc' = loc
    /\ UNCHANGED <<user_data, chat_data, last_reg, update, sends, logged,
                   composer, ret, nupd>>

(***************************************************************************)
(* recent_tracks, top_artists, top_albums, top_tracks: one shape.          *)
(***************************************************************************)

top_list ==
    /\ pc = "top"
    /\ LET lastfm_user == _get_user_and_period(update.args, user_data[update.uid])[1]
       IN  IF NotResolved(lastfm_user)
           THEN /\ ReplyAndReturn("reply_text", "usage", <<>>)
                /\ loc' = loc
           ELSE /\ loc' = [loc EXCEPT !.lastfm_user = lastfm_user]
                /\ pc' = "top:get"
                /\ UNCHANGED <<exc, sends, escaped>>
    /\ UNCHANGED <<user_data, chat_data, last_reg, update, calls, logged,
                   composer, ret, nupd>>

\* network.get_user(...); user.get_recent_tracks / get_top_*: items, an empty
\* list, or an error.
top_list_get ==
    /\ pc = "top:get"
    /\ calls' = calls \o <<"network.get_user", "user.get_" \o update.cmd>>
    /\ \/ /\ \E kind \in {"list", "empty_list"} :
                loc' = [loc EXCEPT !.reply = kind]
          /\ pc' = "reply"
          /\ UNCHANGED <<exc, escaped>>
       \/ /\ \E e \in ServiceErrors("user") : Raise(e)
          /\ loc' = loc
    /\ UNCHANGED <<user_data, chat_data, last_reg, update, sends, logged,
                   composer, ret, nupd>>

(***************************************************************************)
(* artist_info.                                                            *)
(***************************************************************************)

\* The for loop of lines 469-472: user_playcount is assigned at the first item
\* whose name equals the artist's, case-insensitively, and not at all when no
\* item does.
RECURSIVE ScanTopArtists(_, _, _)
ScanTopArtists(top_items, name, user_playcount) ==
    IF top_items = <<>> THEN user_playcount
    ELSE IF Lower(top_items[1][1]) = Lower(name) THEN <<top_items[1][2]>>
    ELSE ScanTopArtists(Tail(top_items), name, user_playcount)

artist_info ==
    /\ pc = "artist"
    /\ IF update.args = <<>>
       THEN /\ ReplyAndReturn("reply_text", "usage", <<>>)
       ELSE IF NotResolved(user_data[update.uid])
       THEN /\ ReplyAndReturn("reply_text", "usage_set_first", <<>>)
       ELSE /\ pc' = "artist:get_bio_summary"
            /\ UNCHANGED <<exc, sends, escaped>>
    /\ loc' = IF update.args = <<>> THEN loc
              ELSE [loc EXCEPT !.lastfm_user = user_data[update.uid]]
    /\ UNCHANGED <<user_data, chat_data, last_reg, update, calls, logged,
                   composer, ret, nupd>>

artist_get_bio_summary ==
    /\ pc = "artist:get_bio_summary"
    /\ calls' = calls \o <<"network.get_user", "network.get_artist",
                           "artist.get_bio_summary">>
    /\ \/ pc' = "artist:get_top_artists" /\ UNCHANGED <<exc, escaped>>
       \/ \E e \in ServiceErrors("artist") : Raise(e)
    /\ UNCHANGED <<user_data, chat_data, last_reg, update, loc, sends, logged,
                   composer, ret, nupd>>

UnboundLocalError == [type |-> "UnboundLocalError", about |-> "user_playcount"]

\* Lines 466-478: the top-50 lookup and scan in their try, whose exceptions are
\* logged; then `if user_playcount is None`, which reads a local variable that
\* is bound only if the scan assigned it.
artist_get_top_artists ==
    /\ pc = "artist:get_top_artists"
    /\ calls' = Append(calls, "user.get_top_artists")
    /\ \/ /\ \E top_items \in TopArtistLists :
                loc' = [loc EXCEPT
                          !.scanned = TRUE,
                          !.top_items = top_items,
                          !.user_playcount =
                              ScanTopArtists(top_items, Join(SPACE, update.args), @)]
          /\ logged' = logged
       \/ /\ loc' = loc
          /\ logged' = Append(logged, "error:top_artists")
    /\ IF loc'.user_playcount = <<>>
       THEN Raise(UnboundLocalError)
       ELSE pc' = "spotify" /\ UNCHANGED <<exc, escaped>>
    /\ UNCHANGED <<user_data, chat_data, last_reg, update, sends, composer,
                   ret, nupd>>

artist_get_top_tags ==
    ServiceCall("artist:get_top_tags", "artist", "artist.get_top_tags", "compose")

(***************************************************************************)
(* album_info and track_info.                                              *)
(***************************************************************************)

album_info ==
    /\ pc = "album"
    /\ IF NotResolved(_parse_artist_item_query(update.args)[1])
       THEN ReplyAndReturn("reply_text", "usage", <<>>)
       ELSE pc' = "album:get_playcount" /\ UNCHANGED <<exc, sends, escaped>>
    /\ UNCHANGED <<user_data, chat_data, last_reg, update, loc, calls, logged,
                   composer, ret, nupd>>

album_get_playcount ==
    /\ pc = "album:get_playcount"
    /\ calls' = calls \o <<"network.get_album", "album.get_playcount">>
    /\ \/ pc' = "spotify" /\ UNCHANGED <<exc, escaped>>
       \/ \E e \in ServiceErrors("album") : Raise(e)
    /\ UNCHANGED <<user_data, chat_data, last_reg, update, loc, sends, logged,
                   composer, ret, nupd>>

album_get_playcount2 ==
    ServiceCall("album:get_playcount2", "album", "album.get_playcount", "compose")

track_info ==
    /\ pc = "track"
    /\ IF NotResolved(_parse_artist_item_query(update.args)[1])
       THEN ReplyAndReturn("reply_text", "usage", <<>>)
       ELSE pc' = "track:get_playcount" /\ UNCHANGED <<exc, sends, escaped>>
    /\ UNCHANGED <<user_data, chat_data, last_reg, update, loc, calls, logged,
                   composer, ret, nupd>>

track_get_playcount ==
    /\ pc = "track:get_playcount"
    /\ calls' = calls \o <<"network.get_track", "track.get_playcount">>
    /\ \/ pc' = "spotify" /\ UNCHANGED <<exc, escaped>>
       \/ \E e \in ServiceErrors("track") : Raise(e)
    /\ UNCHANGED <<user_data, chat_data, last_reg, update, loc, sends, logged,
                   composer, ret, nupd>>

track_get_playcount2 ==
    ServiceCall("track:get_playcount2", "track", "track.get_playcount",
                "track:get_listener_count")

\* track.get_listener_count(); then `if not image_url:` chooses the album lookup.
track_get_listener_count ==
    ServiceCall("track:get_listener_count", "track", "track.get_listener_count",
                IF NeedsFallback(loc.image_url) THEN "track:get_album" ELSE "compose")

\* Lines 544-550: track.get_album() in its try; pylast.WSError is passed over,
\* any other exception leaves the handler.
track_get_album ==
    /\ pc = "track:get_album"
    /\ calls' = Append(calls, "track.get_album")
    /\ \/ /\ \E album \in BOOLEAN :
                /\ loc' = [loc EXCEPT !.album = album]
                /\ pc' = IF album THEN "fallback" ELSE "compose"
          /\ UNCHANGED <<exc, escaped>>
       \/ /\ pc' = "compose"
          /\ UNCHANGED <<loc, exc, escaped>>
       \/ /\ Raise([type |-> "Exception", about |-> "other"])
          /\ loc' = loc
    /\ UNCHANGED <<user_data, chat_data, last_reg, update, sends, logged,
                   composer, ret, nupd>>

(***************************************************************************)
(* The group registry: join_lastfm and now_listening.                      *)
(***************************************************************************)

\* key in d
DictHas(d, k) == \E i \in 1..Len(d) : d[i][1] = k

\* d[k] = v on a list of pairs that appends without looking for the key
DictSet_Append(d, k, v) == Append(d, <<k, v>>)

\* d[k] = v: the value of an existing key is replaced in place, a new key is
\* added at the end
DictSet(d, k, v) ==
    IF DictHas(d, k)
    THEN [i \in 1..Len(d) |-> IF d[i][1] = k THEN <<k, v>> ELSE d[i]]
    ELSE Append(d, <<k, v>>)

\* _get_group_lastfm_users(context): context.chat_data after the call, in which
\* 'lastfm_users' exists (created empty when it was absent) and is returned.
_get_group_lastfm_users(cd) ==
    IF ~cd.present THEN [present |-> TRUE, users |-> <<>>] ELSE cd

join_lastfm ==
    /\ pc = "joinfm"
    /\ LET lastfm_user == user_data[update.uid]
           entry == [lastfm_user |-> lastfm_user,
                     first_name  |-> update.first_name,
                     username    |-> update.username]
           cd == _get_group_lastfm_users(chat_data[update.chat])
       IN  IF NotResolved(lastfm_user)
           THEN /\ ReplyAndReturn("reply_text", "set_first", <<>>)
                /\ UNCHANGED <<chat_data, last_reg>>
           ELSE /\ chat_data' =
                      [chat_data EXCEPT ![update.chat] =
                          [cd EXCEPT !.users = DictSet(@, update.uid, entry)]]
                /\ last_reg' = [last_reg EXCEPT ![update.chat][update.uid] =
                                   [n |-> @.n + 1, entry |-> <<entry>>]]
                /\ ReplyAndReturn("reply_text", "joined", <<>>)
    /\ UNCHANGED <<user_data, update, loc, calls, logged, composer, ret, nupd>>

now_listening ==
    /\ pc = "nl"
    /\ LET cd == _get_group_lastfm_users(chat_data[update.chat])
       IN  /\ chat_data' = [chat_data EXCEPT ![update.chat] = cd]
           /\ IF cd.users = <<>>
              THEN /\ ReplyAndReturn("reply_text", "nobody_joined", <<>>)
                   /\ loc' = loc
              ELSE /\ pc' = "nl:lookup"
                   /\ loc' = [loc EXCEPT !.nl_idx = 1]
                   /\ UNCHANGED <<exc, sends, escaped>>
    /\ UNCHANGED <<user_data, last_reg, update, calls, logged, composer, ret, nupd>>

NlOutcomes == {"track", "nothing", "user_not_found", "ws_other", "exception"}

\* A subscriber's line with the not-found branch adding nothing.
NlLine_NoNotFound(outcome, user_info) ==
    IF outcome = "track"
    THEN <<[kind |-> "listening", first_name |-> user_info.first_name,
            username |-> user_info.username]>>
    ELSE <<>>

\* The lines one pass of the loop body adds to nl_message_lines, by what the
\* lookup did.
NlLine(outcome, user_info) ==
    CASE outcome = "track" ->
           <<[kind |-> "listening", first_name |-> user_info.first_name,
              username |-> user_info.username]>>
      [] outcome = "user_not_found" ->
           <<[kind |-> "not_found", first_name |-> user_info.first_name,
              username |-> user_info.username]>>
      [] OTHER -> <<>>

\* lastfm_user = user_info['lastfm_user']: the name the lookup is made for
NlUser(user_info) == user_info.lastfm_user

\* The head of one pass of `for user_info in group_users.values()`:
\* network.get_user(lastfm_user) and asyncio.to_thread(user.get_now_playing)
\* hand the lookup of the subscriber at the iterator's position to a worker
\* thread, and the handler is suspended at the await until it completes.
nl_to_thread ==
    /\ pc = "nl:lookup"
    /\ LET user_info == chat_data[update.chat].users[loc.nl_idx][2]
       IN  loc' = [loc EXCEPT !.nl_queried = Append(@, NlUser(user_info))]
    /\ calls' = calls \o <<"network.get_user", "user.get_now_playing">>
    /\ pc' = "nl:await"
    /\ UNCHANGED <<user_data, chat_data, last_reg, update, exc, sends,
                   logged, composer, escaped, ret, nupd>>

\* The rest of the pass: the awaited lookup completes (a track, nothing, or
\* an error taken by the except clauses of its try), and the loop goes on to
\* the next subscriber or leaves.
nl_lookup ==
    /\ pc = "nl:await"
    /\ LET group_users == chat_data[update.chat].users
           user_info == group_users[loc.nl_idx][2]
       IN  /\ calls' = calls
           /\ \E outcome \in NlOutcomes :
                /\ loc' = [loc EXCEPT
                             !.nl_idx = @ + 1,
                             !.nl_outcomes = Append(@, outcome),
                             !.nl_lines = @ \o NlLine(outcome, user_info),
                             !.listening_count =
                                 IF outcome = "track" THEN @ + 1 ELSE @]
                /\ logged' =
                     CASE outcome = "ws_other" -> Append(logged, "error:nl_lookup")
                       [] outcome = "exception" -> Append(logged, "error:nl_unexpected")
                       [] OTHER -> logged
           /\ pc' = IF loc.nl_idx = Len(group_users) THEN "nl:report" ELSE "nl:lookup"
    /\ UNCHANGED <<user_data, chat_data, last_reg, update, exc, sends, composer,
                   escaped, ret, nupd>>

\* Lines 639-642: the closing line when nobody is listening, and the one send.
nl_report ==
    /\ pc = "nl:report"
    /\ LET lines == IF loc.listening_count = 0
                       /\ Len(chat_data[update.chat].users) > 0
                    THEN Append(loc.nl_lines, [kind |-> "nobody_listening",
                                               first_name |-> None, username |-> None])
                    ELSE loc.nl_lines
       IN  ReplyAndReturn("reply_text", "nl_report", lines)
    /\ UNCHANGED <<user_data, chat_data, last_reg, update, loc, calls, logged,
                   composer, ret, nupd>>

(***************************************************************************)
(* The bot.                                                                *)
(***************************************************************************)

Next ==
    \/ Dispatch
    \/ Return
    \/ handle_lastfm_errors
    \/ start
    \/ help_command
    \/ unknown_command
    \/ set_username
    \/ HandlerReply
    \/ _get_spotify_image_url
    \/ _get_lastfm_image_fallback
    \/ Compose
    \/ SendPhoto
    \/ SendText
    \/ SendTruncated
    \/ SendGeneric
    \/ now_playing
    \/ np_get_now_playing
    \/ np_get_track_scrobbles
    \/ np_get_album
    \/ top_list
    \/ top_list_get
    \/ artist_info
    \/ artist_get_bio_summary
    \/ artist_get_top_artists
    \/ artist_get_top_tags
    \/ album_info
    \/ album_get_playcount
    \/ album_get_playcount2
    \/ track_info
    \/ track_get_playcount
    \/ track_get_playcount2
    \/ track_get_listener_count
    \/ track_get_album
    \/ join_lastfm
    \/ now_listening
    \/ nl_to_thread
    \/ nl_lookup
    \/ nl_report

Spec == Init /\ [][Next]_vars

(***************************************************************************)
(* The argument parser on its own: every argument list within the bounds,  *)
(* for a user with and a user without a saved name.                        *)
(***************************************************************************)

UPTokens ==
    { <<"7","d","a","y">>,
      <<"1","M","o","n","t","h">>,
      <<"1","2","M","O","N","T","H">>,
      <<"O","v","e","r","a","l","l">>,
      <<"6","m","o","n","t","h">>,
      <<"7","d","a","y","s">>,
      <<"m","o","n","t","h">>,
      <<"R","j","D","j">> }

AITokens == { <<"a">>, <<"-">>, <<"b","-">>, <<"-","c">> }

SeqsUpTo(S, n) == UNION { [1..k -> S] : k \in 0..n }

ParseInputs == SeqsUpTo(UPTokens, MaxUPArgs) \cup SeqsUpTo(AITokens, MaxAIArgs)

InitParse ==
    /\ user_data = [u \in Users |-> IF u = 1 THEN Join(SPACE, <<TokUser>>) ELSE None]
    /\ chat_data = [c \in Chats |-> NoChatData]
    /\ last_reg = [c \in Chats |-> [u \in Users |-> [n |-> 0, entry |-> <<>>]]]
    /\ \E a \in ParseInputs, u \in Users :
         update = [NoUpdate EXCEPT !.cmd = "parse", !.args = a, !.uid = u]
    /\ pc = "parse"
    /\ loc = LocInit
    /\ exc = NoExc
    /\ sends = <<>>
    /\ calls = <<>>
    /\ logged = <<>>
    /\ composer = "none"
    /\ escaped = FALSE
    /\ ret = NoRet
    /\ nupd = 0

ParseUserAndPeriod ==
    /\ pc = "parse"
    /\ ret' = [fn |-> "_get_user_and_period",
               val |-> _get_user_and_period(update.args, user_data[update.uid])]
    /\ pc' = "parsed"
    /\ UNCHANGED <<user_data, chat_data, last_reg, update, loc, exc, sends, calls,
                   logged, composer, escaped, nupd>>

ParseArtistItem ==
    /\ pc = "parse"
    /\ ret' = [fn |-> "_parse_artist_item_query",
               val |-> _parse_artist_item_query(update.args)]
    /\ pc' = "parsed"
    /\ UNCHANGED <<user_data, chat_data, last_reg, update, loc, exc, sends, calls,
                   logged, composer, escaped, nupd>>

NextParse == ParseUserAndPeriod \/ ParseArtistItem

SpecParse == InitParse /\ [][NextParse]_vars

(***************************************************************************)
(* Properties.                                                             *)
(***************************************************************************)

BySender(by) == SelectSeq(sends, LAMBDA m : m.by = by)

\* C1: the response composer never raises to its caller; an invocation that is
\* over ended in a successful send or in a logged failure with the generic
\* message delivered.
C1_ComposerNeverRaises ==
    /\ composer # "raised"
    /\ composer = "returned" =>
         \E i \in 1..Len(sends) :
            /\ sends[i].by = "composer"
            /\ sends[i].outcome = "ok"
            /\ sends[i].kind = "format_error" => "error:text_fallback" \in Range(logged)

\* C2: whatever the command, no exception of a handler invocation, a failed
\* reply send included, reaches the dispatch loop.
C2_NoExceptionEscapes == ~escaped

\* C3: once artist_info has scanned the user's top-50 artists, the user's
\* scrobble count is the weight of the first item whose name matches the
\* artist case-insensitively, and zero when none matches, and the handler goes
\* on to compose its message.
C3_FirstMatch(top_items, name) ==
    LET m == {i \in 1..Len(top_items) : Lower(top_items[i][1]) = Lower(name)}
    IN  IF m = {} THEN 0
        ELSE top_items[CHOOSE i \in m : \A j \in m : i <= j][2]

C3_ArtistScrobbleCount ==
    (update.cmd = "artist" /\ loc.scanned) =>
        /\ loc.user_playcount =
             <<C3_FirstMatch(loc.top_items, Join(SPACE, update.args))>>
        /\ exc.type # "UnboundLocalError"

\* C4: a finished nowListeningReport over a non-empty registry has looked up
\* every subscriber and issued one aggregate message whose lines are, in
\* registry order, a listening line for each lookup that returned a track and a
\* not-found line for each lookup that raised "user not found", with no line
\* for the lookups that returned nothing or raised anything else, which are
\* only logged.
RECURSIVE C4_Lines(_, _)
C4_Lines(users, outcomes) ==
    IF outcomes = <<>> THEN <<>>
    ELSE LET who  == [first_name |-> users[1][2].first_name,
                      username   |-> users[1][2].username]
             line == IF outcomes[1] = "track"
                     THEN <<[kind |-> "listening", first_name |-> who.first_name,
                             username |-> who.username]>>
                     ELSE IF outcomes[1] = "user_not_found"
                     THEN <<[kind |-> "not_found", first_name |-> who.first_name,
                             username |-> who.username]>>
                     ELSE <<>>
         IN  line \o C4_Lines(Tail(users), Tail(outcomes))

C4_ReportCoversEverySubscriber ==
    (update.cmd = "nl" /\ pc = "done" /\ chat_data[update.chat].users # <<>>) =>
        LET users    == chat_data[update.chat].users
            reports  == BySender("handler")
            expected == C4_Lines(users, loc.nl_outcomes)
            failures == SelectSeq(loc.nl_outcomes,
                                  LAMBDA o : o \in {"ws_other", "exception"})
        IN  /\ Len(loc.nl_outcomes) = Len(users)
            /\ Len(reports) = 1
            /\ reports[1].kind = "nl_report"
            /\ SubSeq(reports[1].body, 1, Len(expected)) = expected
            /\ \A i \in (Len(expected) + 1)..Len(reports[1].body) :
                 reports[1].body[i].kind = "nobody_listening"
            /\ Len(SelectSeq(logged, LAMBDA l : l \in {"error:nl_lookup",
                                                       "error:nl_unexpected"}))
                 = Len(failures)

C4_Witness ==
    /\ update.cmd = "nl"
    /\ pc = "done"
    /\ loc.nl_outcomes = <<"ws_other", "user_not_found">>
    /\ Len(BySender("handler")) = 1
    /\ Len(BySender("handler")[1].body) = 2

C6_SixPeriods ==
    { <<"7","d","a","y">>, <<"1","m","o","n","t","h">>,
      <<"3","m","o","n","t","h">>, <<"6","m","o","n","t","h">>,
      <<"1","2","m","o","n","t","h">>, <<"o","v","e","r","a","l","l">> }

C6_UserAndPeriod ==
    (pc = "parsed" /\ ret.fn = "_get_user_and_period") =>
        LET a         == update.args
            saved     == IF update.uid = 1 THEN <<"r","j">> ELSE None
            consumed  == a # <<>> /\ Lower(a[Len(a)]) \in C6_SixPeriods
            remaining == IF consumed THEN SubSeq(a, 1, Len(a) - 1) ELSE a
        IN  /\ ret.val[2] = IF consumed THEN Lower(a[Len(a)])
                            ELSE <<"7","d","a","y">>
            /\ ret.val[1] = IF remaining # <<>> THEN Join(<<" ">>, remaining)
                            ELSE saved
            /\ user_data[update.uid] = saved

C6_Witness ==
    /\ pc = "parsed"
    /\ ret.fn = "_get_user_and_period"
    /\ update.args = << <<"1","M","o","n","t","h">> >>
    /\ ret.val = << <<"r","j">>, <<"1","m","o","n","t","h">> >>

\* C7: _parse_artist_item_query returns the null pair exactly when the
\* space-joined arguments do not contain " - "; otherwise the artist is the
\* trimmed text before the first " - " and the item the trimmed text after it,
\* later occurrences included.
C7_Occurrences(q) ==
    {i \in 1..(Len(q) - 2) : q[i] = " " /\ q[i + 1] = "-" /\ q[i + 2] = " "}

C7_ArtistItem ==
    (pc = "parsed" /\ ret.fn = "_parse_artist_item_query") =>
        LET q   == Join(<<" ">>, update.args)
            occ == C7_Occurrences(q)
        IN  IF occ = {} THEN ret.val = <<None, None>>
            ELSE LET i == CHOOSE k \in occ : \A j \in occ : k <= j
                 IN  /\ ret.val[1] # None
                     /\ ret.val[1] = Strip(SubSeq(q, 1, i - 1))
                     /\ ret.val[2] = Strip(SubSeq(q, i + 3, Len(q)))

C7_Witness ==
    /\ pc = "parsed"
    /\ ret.fn = "_parse_artist_item_query"
    /\ update.args = << <<"a">>, <<"-">>, <<"b","-">>, <<"-">>, <<"-","c">> >>
    /\ ret.val = << <<"a">>, <<"b","-"," ","-"," ","-","c">> >>

\* C8: the send that follows a text send rejected as too long carries the
\* first 4071 units of the caption (all of a shorter caption) followed by the
\* 25-unit marker, and is at most 4096 units long.
C8_TruncatedResend ==
    \A i \in 1..Len(sends) :
        (sends[i].api = "reply_text" /\ sends[i].kind = "caption"
           /\ sends[i].outcome = "too_long" /\ i < Len(sends)) =>
            LET m == sends[i + 1]
                n == Length(sends[i].body)
            IN  /\ m.kind = "truncated"
                /\ m.body.pre = IF n < 4071 THEN n ELSE 4071
                /\ m.body.suf = MARKER
                /\ Len(MARKER) = 25
                /\ Length(m.body) <= 4096

C8_Witness ==
    \E i \in 1..Len(sends) :
        /\ sends[i].kind = "truncated"
        /\ loc.caption = Caption(LongCaption)
        /\ sends[i].body.pre = 4071
        /\ Length(sends[i].body) = 4096

\* C9 as stated: a raising catalog search stays inside the resolver, which
\* returns not found, and every handler that uses the resolver has run the
\* artwork fallback by the time it composes its reply.
C9_FallbackBeforeEveryReply ==
    (loc.spotify = "raised") =>
        /\ loc.spotify_result = None
        /\ composer # "none" => loc.fallback

\* C9 as amended: a raising catalog search stays inside the resolver, which
\* logs it and returns not found (no exception of a service call is in flight
\* while the search is the last call made); by the time
\* the handler composes its reply the artwork fallback has run in artist info
\* and album info, and in now-playing and track info exactly when the scrobble
\* service returned an album for the track.
C9_ResolverContained ==
    (loc.spotify = "raised") =>
        /\ loc.spotify_result = None
        /\ "error:spotify" \in Range(logged)
        /\ calls[Len(calls)] = "sp.search" => exc.type \in {"none", "TelegramError"}
        /\ composer # "none" =>
             (loc.fallback <=> (update.cmd \in {"artist", "album"} \/ loc.album))

C9_Witness ==
    /\ loc.spotify = "raised"
    /\ update.cmd = "np"
    /\ loc.fallback
    /\ composer = "returned"

\* C10: np, recent, topartists, topalbums and toptracks without a resolvable
\* username, and album and track without " - " in their arguments, issue one
\* usage reply and nothing else: no scrobble-service or catalog-service call,
\* no other send of the handler, no composed message.
C10_Malformed ==
    LET a == update.args
        rest == IF a # <<>> /\ Lower(a[Len(a)]) \in C6_SixPeriods
                THEN SubSeq(a, 1, Len(a) - 1) ELSE a
    IN  \/ /\ update.cmd \in {"np", "recent", "topartists", "topalbums", "toptracks"}
           /\ rest = <<>>
           /\ user_data[update.uid] = None
        \/ /\ update.cmd \in {"album", "track"}
           /\ C7_Occurrences(Join(<<" ">>, a)) = {}

C10_MalformedShortCircuits ==
    (C10_Malformed /\ pc # Entry(update.cmd)) =>
        /\ calls = <<>>
        /\ composer = "none"
        /\ Len(BySender("handler")) = 1
        /\ sends[1].by = "handler"
        /\ sends[1].kind = "usage"
        /\ pc \in {"done", "wrapper"}

C10_Witness ==
    /\ update.cmd = "toptracks"
    /\ update.args = <<TokPeriod>>
    /\ user_data[update.uid] = None
    /\ pc = "done"
    /\ Len(sends) = 1
    /\ sends[1].outcome = "ok"

(***************************************************************************)
(* C11: a blocking scrobble-service call blocks only its own request.      *)
(* While a handler is inside a synchronous scrobble-service call           *)
(* (now_playing, lines 280-292; the list commands), an update that is      *)
(* still to be handled can be taken up by its handler: independent         *)
(* requests are not serialized against each other.                         *)
(*                                                                         *)
(* The calls are plain calls in a coroutine, so they hold the event loop   *)
(* until they return, and the Application awaits each update's handler     *)
(* before it takes the next update.                                        *)
(***************************************************************************)

InScrobbleCall ==
    pc \in {"np:get_now_playing", "np:get_track_scrobbles", "np:get_album",
            "top:get"}

C11_IndependentRequestsProgress ==
    (InScrobbleCall /\ nupd < MaxUpdates) => ENABLED Dispatch

(***************************************************************************)
(* C12: within one /nl report the subscribers' lookups do not serialize    *)
(* against each other.  While the lookup of one subscriber is in progress  *)
(* on its worker thread and another subscriber of the same report is still *)
(* to be looked up, that subscriber's lookup can be started.               *)
(*                                                                         *)
(* The loop awaits each asyncio.to_thread call (line 619) before it goes   *)
(* on to the next subscriber.                                              *)
(***************************************************************************)

C12_LookupsOverlap ==
    (/\ pc = "nl:await"
     /\ loc.nl_idx < Len(chat_data[update.chat].users))
    => ENABLED nl_to_thread

(***************************************************************************)
(* C13 is about a /joinfm that adds an entry to the chat's registry while  *)
(* a /nl of the same chat is suspended at a subscriber lookup.  The        *)
(* dispatcher awaits one update's handler before it takes the next, so no  *)
(* behaviour of the bot has such a step: from the first lookup to the      *)
(* report, every step of a /nl leaves every registry as it is.             *)
(***************************************************************************)

InReportPass == pc \in {"nl:lookup", "nl:await", "nl:report"}

RegistryStableDuringReport ==
    [][InReportPass => chat_data' = chat_data]_vars

(***************************************************************************)
(* C14: one invocation of the composer makes at most three send attempts,  *)
(* in a fixed order: the photo with the caption, first and only when an    *)
(* image URL is present; then the full caption as text; then the truncated *)
(* text (after "message is too long") or the generic formatting message    *)
(* (after another error).  A step is attempted only after the step before  *)
(* it failed, and nothing is attempted after a success, so at most one     *)
(* message is delivered.                                                   *)
(***************************************************************************)

C14_Step(m) ==
    CASE m.api = "reply_photo" -> 1
      [] m.api = "reply_text" /\ m.kind = "caption" -> 2
      [] m.api = "reply_text" /\ m.kind \in {"truncated", "format_error"} -> 3
      [] OTHER -> 0

C14_ComposerSends ==
    LET cs == BySender("composer")
        n  == Len(cs)
    IN  /\ n <= 3
        /\ \A i \in 1..n : C14_Step(cs[i]) \in 1..3
        /\ n >= 1 =>
              C14_Step(cs[1]) = (IF Truthy(loc.image_url) THEN 1 ELSE 2)
        /\ \A i \in 1..(n - 1) :
              /\ cs[i].outcome # "ok"
              /\ C14_Step(cs[i + 1]) = C14_Step(cs[i]) + 1
              /\ cs[i + 1].kind = "truncated" => cs[i].outcome = "too_long"
              /\ cs[i + 1].kind = "format_error" => cs[i].outcome = "error"
        /\ Cardinality({i \in 1..n : cs[i].outcome = "ok"}) <= 1
        /\ (composer = "returned" /\ n >= 1) => cs[n].outcome = "ok"
        /\ (n >= 1 /\ cs[n].outcome # "ok" /\ composer = "running") =>
              pc \in {"send:text", "send:truncated", "send:generic"}

\* All three steps were attempted and the third one delivered the message.
C14_Witness ==
    LET cs == BySender("composer")
    IN  /\ Len(cs) = 3
        /\ cs[1].api = "reply_photo"
        /\ cs[3].outcome = "ok"
        /\ composer = "returned"

(***************************************************************************)
(* C15: /set changes the caller's saved name and nothing else: nothing at  *)
(* all without arguments, nobody else's saved name, no chat's registry.    *)
(* A subscriber's entry therefore changes only when that user registers    *)
(* in that chat, and then takes the name saved at that moment; and every   *)
(* lookup of a /nl is made for the name stored at the subscriber's latest  *)
(* registration, whatever the subscriber has saved since.                  *)
(***************************************************************************)

\* The entry of user u in chat c's registry, as a sequence of zero or one.
EntryOf(cd, c, u) ==
    LET d == cd[c].users
    IN  IF DictHas(d, u)
        THEN <<d[CHOOSE i \in 1..Len(d) : d[i][1] = u][2]>>
        ELSE <<>>

C15_SetFrame ==
    pc = "set" =>
        /\ chat_data' = chat_data
        /\ \A u \in Users \ {update.uid} : user_data'[u] = user_data[u]
        /\ user_data'[update.uid] =
              (IF update.args = <<>> THEN user_data[update.uid]
                                     ELSE Join(SPACE, update.args))

C15_EntryKept ==
    \A c \in Chats, u \in Users :
        EntryOf(chat_data', c, u) # EntryOf(chat_data, c, u) =>
            /\ pc = "joinfm" /\ update.chat = c /\ update.uid = u
            /\ EntryOf(chat_data', c, u) # <<>>
            /\ EntryOf(chat_data', c, u)[1].lastfm_user = user_data[u]

C15_QueriesStoredName ==
    InReportPass =>
        LET d == chat_data[update.chat].users
        IN  /\ Len(loc.nl_queried) <= Len(d)
            /\ \A i \in 1..Len(loc.nl_queried) :
                  /\ last_reg[update.chat][d[i][1]].n > 0
                  /\ loc.nl_queried[i] =
                        last_reg[update.chat][d[i][1]].entry[1].lastfm_user

C15_SetLeavesRegistry ==
    [][C15_SetFrame /\ C15_EntryKept /\ C15_QueriesStoredName']_vars

\* A subscriber saved another name after registering, and the report has
\* made its lookup for the name stored in the registry.
C15_Witness ==
    /\ InReportPass
    /\ \E i \in 1..Len(loc.nl_queried) :
          LET u == chat_data[update.chat].users[i][1]
          IN  /\ loc.nl_queried[i] # user_data[u]
              /\ loc.nl_queried[i] =
                    last_reg[update.chat][u].entry[1].lastfm_user

====
